---- MODULE Spec2Model ----
(***************************************************************************)
(* The schema-language grammar of graphql-parser (src/schema/grammar.rs)   *)
(* as a state machine over a token stream.                                 *)
(*                                                                         *)
(* The grammar is written with parser combinators.  Their outcome algebra  *)
(* is the one the model follows:                                           *)
(*   - a matcher that rejects the next token fails "empty" (nothing        *)
(*     consumed); choice, optional, many and many1 recover from an empty   *)
(*     failure only (next alternative / None / end of the repetition);     *)
(*   - a failure after a token was consumed inside the alternative or the  *)
(*     repeated element is final: it is returned by parse_schema;          *)
(*   - flat_map turns an Err of its closure into a failure of the parser.  *)
(* One token of lookahead is all the grammar uses, so every action reads   *)
(* the next token `t` of the stream and either consumes it or leaves it.   *)
(***************************************************************************)
EXTENDS Integers, Sequences, FiniteSets, TLC

\* ------------------------------------------------------------- bounds
MaxTokens == 6     \* the tokenizer yields no token beyond this length of input
MaxPairs == 3      \* longest role list of the schema blocks a text starts with

\* ------------------------------------------------------------- tokens
Tok(k, v) == [kind |-> k, value |-> v]
Ident(v) == Tok("Name", v)
Punct(v) == Tok("Punctuator", v)
EOF == Tok("EOF", "")

\* the role and type names of the schema blocks a text starts with
RoleNames == {"query", "mutation", "subscription", "foo"}
TypeNames == {"A", "B"}
\* the names of the tokens that follow
Names == {"schema", "scalar", "type", "implements", "query", "A", "B"}
StringLiteral == Tok("StringValue", "\"desc\"")
Tokens ==
    {Ident(v) : v \in Names}
        \cup {Punct(v) : v \in {"{", "}", ":", "&", "@"}}
        \cup {StringLiteral}

\* Option<T>
None == << >>
Some(x) == << x >>

\* Pos of the k-th token of the input (one token per column of line 1)
Pos(k) == [line |-> 1, column |-> k]

\* common::string: the value of a string token without its quotes
Unquote(v) == CASE v = "\"desc\"" -> "desc" [] OTHER -> v

VARIABLES
    input,          \* the tokens the tokenizer has produced so far
    eof,            \* the tokenizer has reported the end of the text
    off,            \* number of tokens the parser has consumed
    pc,             \* the grammar position of the parser
    ret,            \* the rule a directive list belongs to
    definitions,    \* many1's vector of definitions
    descr,          \* type_definition: the optional description
    position,       \* the position captured by the rule under way
    name,           \* scalar_type / object_type: the type's name
    interfaces,     \* object_type: the implements list
    directives,     \* the directive list of the rule under way
    oper,           \* schema: the role token of the pair being read
    operations,     \* schema: the (role token, type name) pairs
    opi,            \* schema: pairs the for loop has taken
    query, mutation, subscription,   \* schema: the three slots
    err,            \* schema: the error accumulator
    result          \* what parse_schema returned

stream == <<input, eof, off>>
typeVars == <<descr, name, interfaces>>
slots == <<query, mutation, subscription, err>>
schemaVars == <<oper, operations, opi, query, mutation, subscription, err>>
vars == <<input, eof, off, pc, ret, definitions, descr, position, name,
          interfaces, directives, oper, operations, opi, query, mutation,
          subscription, err, result>>

\* ------------------------------------------------------------- stream
\* The tokens the next read of the stream can return.
Lookahead ==
    IF off < Len(input) THEN {input[off + 1]}
    ELSE IF eof THEN {EOF}
    ELSE (IF Len(input) < MaxTokens THEN Tokens ELSE {}) \cup {EOF}

\* The tokenizer has produced `t`; the parser left it in the stream.
Peek(t) ==
    /\ input' = IF off < Len(input) \/ t = EOF THEN input ELSE Append(input, t)
    /\ eof' = (eof \/ t = EOF)
    /\ off' = off

\* The parser took `t` off the stream.
Consume(t) ==
    /\ t # EOF
    /\ input' = IF off < Len(input) THEN input ELSE Append(input, t)
    /\ eof' = eof
    /\ off' = off + 1

\* TokenStream::position: the position of the next token
StreamPosition == Pos(off + 1)

\* ------------------------------------------------------------- errors
Unexpected(info, text) == [kind |-> "Unexpected", info |-> info, text |-> text]
Expected(info, text) == [kind |-> "Expected", info |-> info, text |-> text]
ErrorsEmpty(p) == [position |-> p, errors |-> << >>]

\* Errors::add_error keeps one copy of equal errors
AddError(e, x) ==
    IF \E i \in 1..Len(e.errors) : e.errors[i] = x
    THEN e
    ELSE [e EXCEPT !.errors = Append(@, x)]

Ok(doc) == [tag |-> "Ok", doc |-> doc]
Err(e) == [tag |-> "Err", error |-> e]
NoResult == [tag |-> "None"]

\* The locals of the rules, dropped when a rule returns.
ClearLocals ==
    /\ ret' = "none"
    /\ descr' = None
    /\ position' = Pos(0)
    /\ name' = ""
    /\ interfaces' = << >>
    /\ directives' = << >>
    /\ oper' = EOF
    /\ operations' = << >>
    /\ opi' = 0
    /\ query' = None
    /\ mutation' = None
    /\ subscription' = None
    /\ err' = ErrorsEmpty(Pos(0))

\* parse_schema returns Err: the vector of many1 goes with the parser.
FailWith(e) ==
    /\ result' = Err(e)
    /\ pc' = "done"
    /\ definitions' = << >>
    /\ ClearLocals

\* A required token is missing: the matcher's error, at the stream position.
Fail(t, what) ==
    /\ Peek(t)
    /\ FailWith(AddError(AddError(ErrorsEmpty(StreamPosition),
                                  Unexpected("Token", t.value)),
                         Expected("Borrowed", what)))

\* The texts parse_schema is given: `input` is the part of the text that is
\* fixed from the start: nothing, or a schema block of up to MaxPairs role
\* pairs, alone or after a scalar type.  The tokenizer yields what follows
\* it token by token.
Pair(r, n) == << Ident(r), Punct(":"), Ident(n) >>

RECURSIVE PairTokens(_)
PairTokens(ps) ==
    IF ps = << >> THEN << >>
    ELSE Pair(ps[1][1], ps[1][2]) \o PairTokens(Tail(ps))

Block(ps) == << Ident("schema"), Punct("{") >> \o PairTokens(ps) \o << Punct("}") >>

PairLists == UNION {[1..n -> RoleNames \X TypeNames] : n \in 0..MaxPairs}

Leads == {<< >>, << Ident("scalar"), Ident("A") >>}

Texts == {<< >>} \cup {lead \o Block(ps) : lead \in Leads, ps \in PairLists}

Init ==
    /\ input \in Texts
    /\ eof = FALSE
    /\ off = 0
    /\ pc = "definition"
    /\ ret = "none"
    /\ definitions = << >>
    /\ descr = None
    /\ position = Pos(0)
    /\ name = ""
    /\ interfaces = << >>
    /\ directives = << >>
    /\ oper = EOF
    /\ operations = << >>
    /\ opi = 0
    /\ query = None
    /\ mutation = None
    /\ subscription = None
    /\ err = ErrorsEmpty(Pos(0))
    /\ result = NoResult

\* ------------------------------------------------------------- AST
SchemaDefinition(p, d, q, m, s) ==
    [position |-> p, directives |-> d, query |-> q, mutation |-> m,
     subscription |-> s]

ScalarType(p, n, d) ==
    [variant |-> "Scalar", position |-> p, description |-> None, name |-> n,
     directives |-> d]

ObjectType(p, n, i, d) ==
    [variant |-> "Object", position |-> p, description |-> None, name |-> n,
     directives |-> d, implements_interfaces |-> i, fields |-> << >>]

\* type_definition's map: the description goes onto the variant parsed
SetDescriptionAndDirectives(def, d) == [def EXCEPT !.description = d, !.directives = << >>]
SetDescription(def, d) == [def EXCEPT !.description = d]

Definition(tag, node) == [tag |-> tag, node |-> node]

\* many1 collects the definitions into a Vec, in the order parsed
PushFront(defs, d) == << d >> \o defs
Push(defs, d) == Append(defs, d)

\* ------------------------------------------------------------- directives
\* common::directives: many('@' name arguments); arguments are left out
DirectivesAt == pc \in {"schema_directives", "scalar_directives", "object_directives"}

DirectiveAt(t) ==
    /\ DirectivesAt
    /\ t = Punct("@")
    /\ Consume(t)
    /\ ret' = pc
    /\ pc' = "directive_name"
    /\ UNCHANGED <<definitions, typeVars, position, directives, schemaVars, result>>

DirectiveName(t) ==
    /\ pc = "directive_name"
    /\ IF t.kind = "Name"
       THEN /\ Consume(t)
            /\ directives' =
                   Append(directives,
                          [position |-> Pos(off), name |-> t.value, arguments |-> << >>])
            /\ pc' = ret
            /\ ret' = "none"
            /\ UNCHANGED <<definitions, typeVars, position, schemaVars, result>>
       ELSE Fail(t, "Name")

\* ------------------------------------------------------------- schema
\* position().skip(ident("schema")): the position is read, then the keyword
SchemaKeywordThenPosition(t) ==
    /\ pc = "definition"
    /\ t = Ident("schema")
    /\ Consume(t)
    /\ position' = Pos(off' + 1)
    /\ pc' = "schema_directives"
    /\ UNCHANGED <<ret, definitions, typeVars, directives, schemaVars, result>>
SchemaKeyword(t) ==
    /\ pc = "definition"
    /\ t = Ident("schema")
    /\ position' = StreamPosition
    /\ Consume(t)
    /\ pc' = "schema_directives"
    /\ UNCHANGED <<ret, definitions, typeVars, directives, schemaVars, result>>

\* the directive list is over; punct("{")
SchemaOpen(t) ==
    /\ pc = "schema_directives"
    /\ t # Punct("@")
    /\ IF t = Punct("{")
       THEN /\ Consume(t)
            /\ pc' = "schema_operations"
            /\ UNCHANGED <<ret, definitions, typeVars, position, directives,
                           schemaVars, result>>
       ELSE Fail(t, "{")

\* many((kind(T::Name).skip(punct(":")), name())): kind(T::Name)
SchemaOperKind(t) ==
    /\ pc = "schema_operations"
    /\ t.kind = "Name"
    /\ Consume(t)
    /\ oper' = t
    /\ pc' = "schema_colon"
    /\ UNCHANGED <<ret, definitions, typeVars, position, directives, operations,
                   opi, slots, result>>

SchemaColon(t) ==
    /\ pc = "schema_colon"
    /\ IF t = Punct(":")
       THEN /\ Consume(t)
            /\ pc' = "schema_type_name"
            /\ UNCHANGED <<ret, definitions, typeVars, position, directives,
                           schemaVars, result>>
       ELSE Fail(t, ":")

SchemaTypeName(t) ==
    /\ pc = "schema_type_name"
    /\ IF t.kind = "Name"
       THEN /\ Consume(t)
            /\ operations' = Append(operations, <<oper, t.value>>)
            /\ oper' = EOF
            /\ pc' = "schema_operations"
            /\ UNCHANGED <<ret, definitions, typeVars, position, directives,
                           opi, slots, result>>
       ELSE Fail(t, "Name")

\* the pair list is over; punct("}"), then the closure of flat_map starts
\* with the three slots None and an empty accumulator at `position`
SchemaClose(t) ==
    /\ pc = "schema_operations"
    /\ t.kind # "Name"
    /\ IF t = Punct("}")
       THEN /\ Consume(t)
            /\ query' = None
            /\ mutation' = None
            /\ subscription' = None
            /\ err' = ErrorsEmpty(position)
            /\ opi' = 0
            /\ pc' = "schema_flat_map"
            /\ UNCHANGED <<ret, definitions, typeVars, position, directives,
                           oper, operations, result>>
       ELSE Fail(t, "}")

\* The arms of the match on oper.value; s holds the three slots and the
\* accumulator.  (The messages quote the role in backquotes, which a string
\* here cannot hold.)

\* the guard `if query.is_some()`
QueryIsSomeNever(s) == FALSE
QueryIsSome(s) == s.query # None

MutationIsSome(s) == s.mutation # None

SubscriptionIsSome(s) == s.subscription # None

Duplicate(s, message) == [s EXCEPT !.err = AddError(@, Unexpected("Borrowed", message))]

SetQuery(s, type_name) == [s EXCEPT !.query = Some(type_name)]

\* the arm "mutation" => mutation = Some(type_name)
SetMutationInQuery(s, type_name) == [s EXCEPT !.query = Some(type_name)]
SetMutation(s, type_name) == [s EXCEPT !.mutation = Some(type_name)]

SetSubscription(s, type_name) == [s EXCEPT !.subscription = Some(type_name)]

\* the arm _ => four add_error calls
InvalidOperTwoExpected(s, op) ==
    [s EXCEPT !.err =
         AddError(AddError(AddError(@,
             Unexpected("Token", op.value)),
             Expected("Borrowed", "query")),
             Expected("Borrowed", "mutation"))]
InvalidOper(s, op) ==
    [s EXCEPT !.err =
         AddError(AddError(AddError(AddError(@,
             Unexpected("Token", op.value)),
             Expected("Borrowed", "query")),
             Expected("Borrowed", "mutation")),
             Expected("Borrowed", "subscription"))]

\* match oper.value { ... }, the arms in the order written
MatchOper(s, op, type_name) ==
    IF op.value = "query" /\ QueryIsSome(s)
    THEN Duplicate(s, "duplicate query operation")
    ELSE IF op.value = "query"
    THEN SetQuery(s, type_name)
    ELSE IF op.value = "mutation" /\ MutationIsSome(s)
    THEN Duplicate(s, "duplicate mutation operation")
    ELSE IF op.value = "mutation"
    THEN SetMutation(s, type_name)
    ELSE IF op.value = "subscription" /\ SubscriptionIsSome(s)
    THEN Duplicate(s, "duplicate subscription operation")
    ELSE IF op.value = "subscription"
    THEN SetSubscription(s, type_name)
    ELSE InvalidOper(s, op)

\* one turn of `for (oper, type_name) in operations`
SchemaLoop ==
    /\ pc = "schema_flat_map"
    /\ opi < Len(operations)
    /\ LET s == MatchOper([query |-> query, mutation |-> mutation,
                           subscription |-> subscription, err |-> err],
                          operations[opi + 1][1], operations[opi + 1][2])
       IN /\ query' = s.query
          /\ mutation' = s.mutation
          /\ subscription' = s.subscription
          /\ err' = s.err
    /\ opi' = opi + 1
    /\ UNCHANGED <<stream, pc, ret, definitions, typeVars, position, directives,
                   oper, operations, result>>

\* after the loop: Err(err) when anything was accumulated, else the node,
\* tagged Definition::SchemaDefinition and pushed by many1
SchemaReturnAtFirstError ==
    /\ pc = "schema_flat_map"
    /\ opi = Len(operations) \/ err.errors # << >>
    /\ UNCHANGED stream
    /\ IF err.errors # << >>
       THEN FailWith(err)
       ELSE /\ definitions' =
                   Append(definitions,
                          [tag |-> "SchemaDefinition",
                           node |-> [position |-> position, directives |-> directives,
                                     query |-> query, mutation |-> mutation,
                                     subscription |-> subscription]])
            /\ pc' = "definition"
            /\ ClearLocals
            /\ UNCHANGED result
SchemaReturn ==
    /\ pc = "schema_flat_map"
    /\ opi = Len(operations)
    /\ UNCHANGED stream
    /\ IF err.errors # << >>
       THEN FailWith(err)
       ELSE /\ definitions' =
                   Push(definitions,
                        Definition("SchemaDefinition",
                                   SchemaDefinition(position, directives, query,
                                                    mutation, subscription)))
            /\ pc' = "definition"
            /\ ClearLocals
            /\ UNCHANGED result

\* ------------------------------------------------------------- types
\* type_definition: optional(parser(string)) took a description
TypeDescription(t) ==
    /\ pc = "definition"
    /\ t.kind = "StringValue"
    /\ Consume(t)
    /\ descr' = Some(Unquote(t.value))
    /\ pc' = "type_choice"
    /\ UNCHANGED <<ret, definitions, name, interfaces, position, directives,
                   schemaVars, result>>

\* scalar_type: position(), ident("scalar")
ScalarKeyword(t) ==
    /\ pc \in {"definition", "type_choice"}
    /\ t = Ident("scalar")
    /\ position' = StreamPosition
    /\ Consume(t)
    /\ pc' = "scalar_name"
    /\ UNCHANGED <<ret, definitions, typeVars, directives, schemaVars, result>>

\* object_type: position(), ident("type")
ObjectKeyword(t) ==
    /\ pc \in {"definition", "type_choice"}
    /\ t = Ident("type")
    /\ position' = StreamPosition
    /\ Consume(t)
    /\ pc' = "object_name"
    /\ UNCHANGED <<ret, definitions, typeVars, directives, schemaVars, result>>

\* Neither alternative of the choice takes the token that follows a
\* description: type_definition has consumed, the failure is final.
TypeChoiceRetry(t) ==
    /\ pc = "type_choice"
    /\ t \notin {Ident("scalar"), Ident("type")}
    /\ Peek(t)
    /\ descr' = None
    /\ pc' = "definition"
    /\ UNCHANGED <<ret, definitions, name, interfaces, position, directives,
                   schemaVars, result>>
TypeChoiceFail(t) ==
    /\ pc = "type_choice"
    /\ t \notin {Ident("scalar"), Ident("type")}
    /\ Fail(t, "scalar or type")

\* ident("scalar").with(name())
ScalarName(t) ==
    /\ pc = "scalar_name"
    /\ IF t.kind = "Name"
       THEN /\ Consume(t)
            /\ name' = t.value
            /\ pc' = "scalar_directives"
            /\ UNCHANGED <<ret, definitions, descr, interfaces, position,
                           directives, schemaVars, result>>
       ELSE Fail(t, "Name")

\* scalar_type returns; type_definition patches the description in;
\* definition tags the node and many1 pushes it
ScalarReturn(t) ==
    /\ pc = "scalar_directives"
    /\ t # Punct("@")
    /\ Peek(t)
    /\ definitions' =
           Push(definitions,
                Definition("TypeDefinition",
                           SetDescription(ScalarType(position, name, directives),
                                          descr)))
    /\ pc' = "definition"
    /\ ClearLocals
    /\ UNCHANGED result

\* ident("type").with(name())
ObjectName(t) ==
    /\ pc = "object_name"
    /\ IF t.kind = "Name"
       THEN /\ Consume(t)
            /\ name' = t.value
            /\ pc' = "object_interfaces"
            /\ UNCHANGED <<ret, definitions, descr, interfaces, position,
                           directives, schemaVars, result>>
       ELSE Fail(t, "Name")

\* implements_interfaces: ident("implements")
Implements(t) ==
    /\ pc = "object_interfaces"
    /\ t = Ident("implements")
    /\ Consume(t)
    /\ pc' = "implements_first"
    /\ UNCHANGED <<ret, definitions, typeVars, position, directives, schemaVars,
                   result>>

\* implements_interfaces: the optional is None, the list is Vec::new()
NoImplements(t) ==
    /\ pc = "object_interfaces"
    /\ t # Ident("implements")
    /\ Peek(t)
    /\ interfaces' = << >>
    /\ pc' = "object_directives"
    /\ UNCHANGED <<ret, definitions, descr, name, position, directives,
                   schemaVars, result>>

\* .skip(optional(punct("&")))
ImplementsAmp(t) ==
    /\ pc = "implements_first"
    /\ t = Punct("&")
    /\ Consume(t)
    /\ pc' = "implements_name"
    /\ UNCHANGED <<ret, definitions, typeVars, position, directives, schemaVars,
                   result>>

\* sep_by1 pushes each name() onto its Vec
PushInterfaceFront(list, n) == << n >> \o list
PushInterface(list, n) == Append(list, n)

\* sep_by1(name(), punct("&")): name()
InterfaceName(t) ==
    /\ \/ pc = "implements_name"
       \/ pc = "implements_first" /\ t # Punct("&")
    /\ IF t.kind = "Name"
       THEN /\ Consume(t)
            /\ interfaces' = PushInterface(interfaces, t.value)
            /\ pc' = "implements_separator"
            /\ UNCHANGED <<ret, definitions, descr, name, position, directives,
                           schemaVars, result>>
       ELSE Fail(t, "Name")

\* sep_by1(name(), punct("&")): punct("&")
InterfaceSeparator(t) ==
    /\ pc = "implements_separator"
    /\ t = Punct("&")
    /\ Consume(t)
    /\ pc' = "implements_name"
    /\ UNCHANGED <<ret, definitions, typeVars, position, directives, schemaVars,
                   result>>

\* sep_by1 ends at the first token that is no "&"
InterfacesEnd(t) ==
    /\ pc = "implements_separator"
    /\ t # Punct("&")
    /\ Peek(t)
    /\ pc' = "object_directives"
    /\ UNCHANGED <<ret, definitions, typeVars, position, directives, schemaVars,
                   result>>

\* object_type returns; type_definition patches the description in;
\* definition tags the node and many1 pushes it
ObjectReturn(t) ==
    /\ pc = "object_directives"
    /\ t # Punct("@")
    /\ Peek(t)
    /\ definitions' =
           Push(definitions,
                Definition("TypeDefinition",
                           SetDescription(ObjectType(position, name, interfaces,
                                                     directives),
                                          descr)))
    /\ pc' = "definition"
    /\ ClearLocals
    /\ UNCHANGED result

\* ------------------------------------------------------------- document
\* No alternative of `definition` takes the token, none has consumed:
\* many1 fails when it has no definition yet and ends otherwise.
DefinitionsEndMany(t) ==
    /\ pc = "definition"
    /\ t.kind # "StringValue"
    /\ t \notin {Ident("schema"), Ident("scalar"), Ident("type")}
    /\ Peek(t)
    /\ pc' = "eof"
    /\ UNCHANGED <<ret, definitions, typeVars, position, directives,
                   schemaVars, result>>
DefinitionsEnd(t) ==
    /\ pc = "definition"
    /\ t.kind # "StringValue"
    /\ t \notin {Ident("schema"), Ident("scalar"), Ident("type")}
    /\ IF definitions = << >>
       THEN Fail(t, "definition")
       ELSE /\ Peek(t)
            /\ pc' = "eof"
            /\ UNCHANGED <<ret, definitions, typeVars, position, directives,
                           schemaVars, result>>

\* .map(|d| Document { definitions: d }).skip(eof())
Eof(t) ==
    /\ pc = "eof"
    /\ IF t = EOF
       THEN /\ Peek(t)
            /\ result' = Ok([definitions |-> definitions])
            /\ definitions' = << >>
            /\ pc' = "done"
            /\ ClearLocals
       ELSE Fail(t, "end of input")

Next ==
    \/ \E t \in Lookahead : SchemaKeyword(t)
    \/ \E t \in Lookahead : DirectiveAt(t)
    \/ \E t \in Lookahead : DirectiveName(t)
    \/ \E t \in Lookahead : SchemaOpen(t)
    \/ \E t \in Lookahead : SchemaOperKind(t)
    \/ \E t \in Lookahead : SchemaColon(t)
    \/ \E t \in Lookahead : SchemaTypeName(t)
    \/ \E t \in Lookahead : SchemaClose(t)
    \/ SchemaLoop
    \/ SchemaReturn
    \/ \E t \in Lookahead : TypeDescription(t)
    \/ \E t \in Lookahead : ScalarKeyword(t)
    \/ \E t \in Lookahead : ObjectKeyword(t)
    \/ \E t \in Lookahead : TypeChoiceFail(t)
    \/ \E t \in Lookahead : ScalarName(t)
    \/ \E t \in Lookahead : ScalarReturn(t)
    \/ \E t \in Lookahead : ObjectName(t)
    \/ \E t \in Lookahead : Implements(t)
    \/ \E t \in Lookahead : NoImplements(t)
    \/ \E t \in Lookahead : ImplementsAmp(t)
    \/ \E t \in Lookahead : InterfaceName(t)
    \/ \E t \in Lookahead : InterfaceSeparator(t)
    \/ \E t \in Lookahead : InterfacesEnd(t)
    \/ \E t \in Lookahead : ObjectReturn(t)
    \/ \E t \in Lookahead : DefinitionsEnd(t)
    \/ \E t \in Lookahead : Eof(t)

Spec == Init /\ [][Next]_vars


\* ------------------------------------------------------------- texts
\* What a text is, read off its tokens alone.
LegalRoles == {"query", "mutation", "subscription"}

\* s is `schema { (Name : Name)* }`
IsSchemaBlock(s) ==
    /\ Len(s) >= 3
    /\ (Len(s) - 3) % 3 = 0
    /\ s[1] = Ident("schema")
    /\ s[2] = Punct("{")
    /\ s[Len(s)] = Punct("}")
    /\ \A i \in 1..((Len(s) - 3) \div 3) :
           /\ s[3 * i].kind = "Name"
           /\ s[3 * i + 1] = Punct(":")
           /\ s[3 * i + 2].kind = "Name"

NPairs(s) == (Len(s) - 3) \div 3
RoleAt(s, i) == s[3 * i].value
TypeAt(s, i) == s[3 * i + 2].value

\* the i-th pair of block s repeats the role of an earlier pair
IsRepeat(s, i) ==
    /\ RoleAt(s, i) \in LegalRoles
    /\ \E j \in 1..(i - 1) : RoleAt(s, j) = RoleAt(s, i)

IsUnknown(s, i) == RoleAt(s, i) \notin LegalRoles

DistinctLegalRoles(s) ==
    \A i \in 1..NPairs(s) : ~IsRepeat(s, i) /\ ~IsUnknown(s, i)

\* the type name of the first pair of block s with role r, if any
FirstOf(s, r) ==
    IF \E i \in 1..NPairs(s) : RoleAt(s, i) = r
    THEN LET i == CHOOSE k \in 1..NPairs(s) :
                      /\ RoleAt(s, k) = r
                      /\ \A j \in 1..(k - 1) : RoleAt(s, j) # r
         IN Some(TypeAt(s, i))
    ELSE None

DuplicateOf(r) ==
    Unexpected("Borrowed",
               CASE r = "query" -> "duplicate query operation"
                 [] r = "mutation" -> "duplicate mutation operation"
                 [] OTHER -> "duplicate subscription operation")

UnknownOf(r) ==
    {Unexpected("Token", r), Expected("Borrowed", "query"),
     Expected("Borrowed", "mutation"), Expected("Borrowed", "subscription")}

Entries(e) == {e.errors[i] : i \in 1..Len(e.errors)}

\* the diagnostics of the i-th pair of block s
DiagnosticsOf(s, i) ==
    IF IsRepeat(s, i) THEN {DuplicateOf(RoleAt(s, i))}
    ELSE IF IsUnknown(s, i) THEN UnknownOf(RoleAt(s, i))
    ELSE {}

\* parse_schema has returned (a failure may leave the rest of the text unread)
Returned == pc = "done"

\* the pairs the schema rule has parsed, as a block of tokens
OperationsBlock ==
    Block([i \in 1..Len(operations) |->
               <<operations[i][1].value, operations[i][2]>>])

InLoop == pc = "schema_flat_map"

\* ------------------------------------------------------------- C1
\* C1: a text that is one schema block whose roles are pairwise distinct and
\* all of query, mutation, subscription parses to a Document of exactly one
\* SchemaDefinition: each slot named holds Some of its type name, every
\* other slot is None, the directives are empty and the position is that of
\* the `schema` keyword, line 1 column 1.
C1_DistinctRolesParse ==
    (Returned /\ IsSchemaBlock(input) /\ DistinctLegalRoles(input))
        => result =
               Ok([definitions |->
                      << [tag |-> "SchemaDefinition",
                          node |-> [position |-> [line |-> 1, column |-> 1],
                                    directives |-> << >>,
                                    query |-> FirstOf(input, "query"),
                                    mutation |-> FirstOf(input, "mutation"),
                                    subscription |-> FirstOf(input, "subscription")]] >>])

C1_Witness ==
    /\ Returned
    /\ IsSchemaBlock(input)
    /\ DistinctLegalRoles(input)
    /\ NPairs(input) = 3
    /\ result.tag = "Ok"
    /\ result.doc.definitions[1].node.subscription = Some("B")
    /\ result.doc.definitions[1].node.query = Some("A")

\* ------------------------------------------------------------- C2
\* C2: at every point of the loop each of the three slots holds the type
\* name of the first pair taken so far that carries its role (None when
\* there is none), so a slot once set is never changed by a later pair; the
\* accumulator holds the duplicate diagnostic of every repeat occurrence
\* taken so far; and a block with a repeated role makes parse_schema fail
\* with that diagnostic.
C2_FirstRoleWins ==
    /\ InLoop =>
           LET done == SubSeq(OperationsBlock, 1, 2 + 3 * opi) \o << Punct("}") >>
           IN /\ query = FirstOf(done, "query")
              /\ mutation = FirstOf(done, "mutation")
              /\ subscription = FirstOf(done, "subscription")
              /\ \A i \in 1..opi :
                     IsRepeat(done, i) => DuplicateOf(RoleAt(done, i)) \in Entries(err)
    /\ (Returned /\ IsSchemaBlock(input)) =>
           \A i \in 1..NPairs(input) :
               IsRepeat(input, i) =>
                   /\ result.tag = "Err"
                   /\ DuplicateOf(RoleAt(input, i)) \in Entries(result.error)

C2_Witness ==
    /\ InLoop
    /\ opi = 2
    /\ operations[1][1].value = "query"
    /\ operations[2][1].value = "query"
    /\ operations[1][2] = "A"
    /\ operations[2][2] = "B"
    /\ query = Some("A")
    /\ DuplicateOf("query") \in Entries(err)

\* ------------------------------------------------------------- C3
\* C3: a turn of the loop that takes a pair whose role is none of query,
\* mutation, subscription leaves the three slots as they were and leaves in
\* the accumulator the unexpected-token diagnostic of that role token and
\* the three expected diagnostics; the return that follows a list with such
\* a pair is a failure carrying them, and for a list of that one pair
\* exactly these four.
C3_UnknownRole ==
    [][/\ (InLoop /\ opi < Len(operations) /\ opi' = opi + 1
              /\ operations[opi + 1][1].value \notin LegalRoles)
          => /\ query' = query
             /\ mutation' = mutation
             /\ subscription' = subscription
             /\ UnknownOf(operations[opi + 1][1].value) \subseteq Entries(err')
       /\ (InLoop /\ pc' # pc)
          => \A i \in 1..Len(operations) :
                 operations[i][1].value \notin LegalRoles
                     => /\ result'.tag = "Err"
                        /\ UnknownOf(operations[i][1].value)
                               \subseteq Entries(result'.error)
                        /\ Len(operations) = 1
                               => result'.error.errors =
                                      << Unexpected("Token", operations[1][1].value),
                                         Expected("Borrowed", "query"),
                                         Expected("Borrowed", "mutation"),
                                         Expected("Borrowed", "subscription") >>
      ]_vars

C3_Witness ==
    /\ pc = "done"
    /\ input = << Ident("schema"), Punct("{"), Ident("foo"), Punct(":"),
                  Ident("B"), Punct("}") >>
    /\ result.tag = "Err"
    /\ Len(result.error.errors) = 4

\* ------------------------------------------------------------- C4
\* C4 as stated: parse_schema succeeds on a schema block exactly when no
\* pair of it is a repeat or unrecognized, and otherwise fails with a
\* diagnostic set that holds one duplicate diagnostic per repeat occurrence
\* and four diagnostics per unrecognized role.
C4_OnePerOccurrence ==
    (Returned /\ IsSchemaBlock(input)) =>
        /\ result.tag = "Ok" <=> DistinctLegalRoles(input)
        /\ result.tag = "Err" =>
               /\ \A i \in 1..NPairs(input) :
                      DiagnosticsOf(input, i) \subseteq Entries(result.error)
               /\ Len(result.error.errors) =
                      Cardinality({i \in 1..NPairs(input) : IsRepeat(input, i)})
                      + 4 * Cardinality({i \in 1..NPairs(input) : IsUnknown(input, i)})

\* C4 amended: the loop takes every pair before the rule returns;
\* parse_schema succeeds on a schema block exactly when no pair of it is a
\* repeat or unrecognized, and otherwise fails with a diagnostic set that
\* holds the diagnostics of every offending pair of the block and nothing
\* else, each distinct diagnostic once.
C4_AllDiagnostics ==
    /\ InLoop =>
           /\ \A i \in 1..opi :
                  DiagnosticsOf(OperationsBlock, i) \subseteq Entries(err)
           /\ result.tag = "None"
    /\ (Returned /\ IsSchemaBlock(input)) =>
           /\ result.tag = "Ok" <=> DistinctLegalRoles(input)
           /\ result.tag = "Err" =>
                  /\ Entries(result.error) =
                         UNION {DiagnosticsOf(input, i) : i \in 1..NPairs(input)}
                  /\ Len(result.error.errors) = Cardinality(Entries(result.error))

C4_Witness ==
    /\ Returned
    /\ IsSchemaBlock(input)
    /\ NPairs(input) = 3
    /\ IsUnknown(input, 1)
    /\ IsRepeat(input, 3)
    /\ result.tag = "Err"
    /\ Len(result.error.errors) = 5


\* ------------------------------------------------------------- grammar
\* The grammar of the language, as predicates on a sequence of tokens.
Sub(s, m, n) == IF m > n THEN << >> ELSE SubSeq(s, m, n)

\* ('@' Name)*
IsDirectives(s) ==
    /\ Len(s) % 2 = 0
    /\ \A k \in 1..(Len(s) \div 2) :
           s[2 * k - 1] = Punct("@") /\ s[2 * k].kind = "Name"

\* "schema" directives "{" (Name ":" Name)* "}", the roles legal and distinct
IsSchemaDefinition(s) ==
    /\ Len(s) >= 3
    /\ s[1] = Ident("schema")
    /\ \E d \in 0..((Len(s) - 3) \div 2) :
           LET block == << Ident("schema") >> \o Sub(s, 2 + 2 * d, Len(s))
           IN /\ IsDirectives(Sub(s, 2, 1 + 2 * d))
              /\ IsSchemaBlock(block)
              /\ DistinctLegalRoles(block)

DescriptionLen(s) == IF Len(s) >= 1 /\ s[1].kind = "StringValue" THEN 1 ELSE 0

\* StringLiteral? "scalar" Name directives
IsScalarDefinition(s) ==
    LET o == DescriptionLen(s)
    IN /\ Len(s) >= o + 2
       /\ s[o + 1] = Ident("scalar")
       /\ s[o + 2].kind = "Name"
       /\ IsDirectives(Sub(s, o + 3, Len(s)))

\* ("implements" "&"? Name ("&" Name)*)?
IsInterfaces(s) ==
    \/ s = << >>
    \/ /\ s[1] = Ident("implements")
       /\ LET r == IF Len(s) >= 2 /\ s[2] = Punct("&")
                   THEN Sub(s, 3, Len(s))
                   ELSE Sub(s, 2, Len(s))
          IN /\ Len(r) % 2 = 1
             /\ \A k \in 1..Len(r) :
                    IF k % 2 = 1 THEN r[k].kind = "Name" ELSE r[k] = Punct("&")

\* StringLiteral? "type" Name interfaces directives
IsObjectDefinition(s) ==
    LET o == DescriptionLen(s)
    IN /\ Len(s) >= o + 2
       /\ s[o + 1] = Ident("type")
       /\ s[o + 2].kind = "Name"
       /\ \E k \in (o + 2)..Len(s) :
              /\ IsInterfaces(Sub(s, o + 3, k))
              /\ IsDirectives(Sub(s, k + 1, Len(s)))

IsDefinition(s) ==
    IsSchemaDefinition(s) \/ IsScalarDefinition(s) \/ IsObjectDefinition(s)

RECURSIVE IsDefinitions(_)
IsDefinitions(s) ==
    \/ s = << >>
    \/ \E k \in 1..Len(s) :
           IsDefinition(Sub(s, 1, k)) /\ IsDefinitions(Sub(s, k + 1, Len(s)))

\* one or more definitions
IsDocument(s) == s # << >> /\ IsDefinitions(s)

StartsDefinition(t) ==
    t.kind = "StringValue" \/ t \in {Ident("schema"), Ident("scalar"), Ident("type")}

\* the definitions parsed so far, or returned
Defs == IF result.tag = "Ok" THEN result.doc.definitions ELSE definitions

IsSchema(d) == d.tag = "SchemaDefinition"
IsObject(d) == d.tag = "TypeDefinition" /\ d.node.variant = "Object"
Column(d) == d.node.position.column

\* the keyword a definition of this tag and variant is written with
KeywordOf(d) ==
    IF IsSchema(d) THEN Ident("schema")
    ELSE IF d.node.variant = "Scalar" THEN Ident("scalar")
    ELSE Ident("type")

\* the first token of a definition, from its position
StartOf(d) ==
    IF IsSchema(d) \/ d.node.description = None THEN Column(d) ELSE Column(d) - 1

SomeCount(o) == IF o = None THEN 0 ELSE 1

\* the number of tokens a definition is written with
TokenLen(d) ==
    IF IsSchema(d)
    THEN 3 + 2 * Len(d.node.directives)
           + 3 * (SomeCount(d.node.query) + SomeCount(d.node.mutation)
                    + SomeCount(d.node.subscription))
    ELSE (Column(d) - StartOf(d)) + 2 + 2 * Len(d.node.directives)
           + (IF IsObject(d) /\ d.node.implements_interfaces # << >>
              THEN 2 * Len(d.node.implements_interfaces)
                     + (IF input[Column(d) + 3] = Punct("&") THEN 1 ELSE 0)
              ELSE 0)

\* the token the step from the unprimed state read
Read == IF off < Len(input') THEN input'[off + 1] ELSE EOF

C6_DescriptionPatch ==
    [][(pc \in {"scalar_directives", "object_directives"} /\ pc' = "definition")
          => LET d == definitions'[Len(definitions')]
                 rule == IF pc = "scalar_directives"
                         THEN ScalarType(position, name, directives)
                         ELSE ObjectType(position, name, interfaces, directives)
                 before == position.column - 1
             IN /\ d.tag = "TypeDefinition"
                /\ d.node.description =
                       (IF before >= 1 /\ input[before].kind = "StringValue"
                        THEN Some("desc") ELSE None)
                /\ DOMAIN d.node = DOMAIN rule
                /\ \A f \in DOMAIN rule \ {"description"} : d.node[f] = rule[f]
                /\ input[position.column] = KeywordOf(d)
                /\ d.node.name = input[position.column + 1].value
      ]_vars

C6_Witness ==
    \E i \in 1..Len(Defs) :
        /\ IsObject(Defs[i])
        /\ Defs[i].node.description = Some("desc")
        /\ Defs[i].node.directives # << >>
        /\ Defs[i].node.position = Pos(2)

\* ------------------------------------------------------------- C7
\* C7: an object type written without `implements` has no interfaces; one
\* written with it has at least one, namely the names that follow
\* `implements` and an optional `&`, separated by `&`, in the order
\* written; its fields are empty; and `type Name implements` followed,
\* after an optional `&`, by anything but a name makes parse_schema fail.
C7_Interfaces ==
    /\ \A i \in 1..Len(Defs) :
           IsObject(Defs[i]) =>
               LET d == Defs[i].node
                   p == d.position.column
                   n == Len(d.implements_interfaces)
                   s == IF Len(input) >= p + 3 /\ input[p + 3] = Punct("&")
                        THEN p + 4 ELSE p + 3
               IN /\ d.fields = << >>
                  /\ IF Len(input) >= p + 2 /\ input[p + 2] = Ident("implements")
                     THEN /\ n >= 1
                          /\ Len(input) >= s + 2 * n - 2
                          /\ \A k \in 1..n :
                                 /\ input[s + 2 * (k - 1)].kind = "Name"
                                 /\ d.implements_interfaces[k] = input[s + 2 * (k - 1)].value
                                 /\ k < n => input[s + 2 * k - 1] = Punct("&")
                          /\ Len(input) >= s + 2 * n - 1 => input[s + 2 * n - 1] # Punct("&")
                     ELSE n = 0
    /\ (Returned /\ Len(input) >= 3 /\ input[1] = Ident("type")
            /\ input[2].kind = "Name" /\ input[3] = Ident("implements")
            /\ LET s == IF Len(input) >= 4 /\ input[4] = Punct("&") THEN 5 ELSE 4
               IN Len(input) < s \/ input[s].kind # "Name")
           => result.tag = "Err"

C7_Witness ==
    /\ result.tag = "Ok"
    /\ input = << Ident("type"), Ident("A"), Ident("implements"), Ident("B"),
                  Punct("&"), Ident("A") >>
    /\ result.doc.definitions[1].node.implements_interfaces = << "B", "A" >>
    /\ result.doc.definitions[1].node.fields = << >>

\* ------------------------------------------------------------- C8
\* C8: the definitions of a returned Document are the definitions of the
\* text, one entry each, in source order: the first starts at the first
\* token, each next one starts where the one before it ends, the last ends
\* at the last token, and each is tagged and shaped after its keyword:
\* SchemaDefinition for schema, TypeDefinition Scalar for scalar,
\* TypeDefinition Object for type.
C8_SourceOrder ==
    result.tag = "Ok" =>
        LET ds == result.doc.definitions
        IN /\ Len(ds) >= 1
           /\ StartOf(ds[1]) = 1
           /\ \A i \in 1..Len(ds) :
                  /\ ds[i].tag \in {"SchemaDefinition", "TypeDefinition"}
                  /\ Column(ds[i]) \in 1..Len(input)
                  /\ input[Column(ds[i])] = KeywordOf(ds[i])
                  /\ StartOf(ds[i]) + TokenLen(ds[i]) =
                         (IF i < Len(ds) THEN StartOf(ds[i + 1]) ELSE Len(input) + 1)

C8_Witness ==
    /\ result.tag = "Ok"
    /\ Len(result.doc.definitions) = 2
    /\ IsSchema(result.doc.definitions[1])
    /\ IsObject(result.doc.definitions[2])
    /\ result.doc.definitions[2].node.description = Some("desc")

\* ------------------------------------------------------------- C9
\* C9: the list of definitions ends, and another alternative is tried, only
\* where no token of the definition under way has been consumed.  Once a
\* rule has consumed a token, the parser continues that definition,
\* completes it, or returns an error: the token after a description that is
\* neither `scalar` nor `type` (a `schema` block included), and the token
\* after `scalar` or `type` that is no name, make parse_schema fail.
Committed == pc \notin {"definition", "eof", "done", "schema_flat_map"}

C9_NoRetry ==
    [][/\ Committed =>
             /\ pc' # "eof"
             /\ pc' = "definition" => Len(definitions') = Len(definitions) + 1
             /\ pc' = "done" => result'.tag = "Err"
             /\ off' >= off
       /\ (pc = "type_choice" /\ Read \notin {Ident("scalar"), Ident("type")})
             => (pc' = "done" /\ result'.tag = "Err")
       /\ (pc \in {"scalar_name", "object_name"} /\ Read.kind # "Name")
             => (pc' = "done" /\ result'.tag = "Err")
       /\ pc' = "eof" => (pc \in {"definition", "eof"} /\ IsDocument(Sub(input', 1, off')))
      ]_vars

C9_Witness ==
    /\ Returned
    /\ result.tag = "Err"
    /\ Len(input) = 2
    /\ input[1].kind = "StringValue"
    /\ input[2] = Ident("schema")

\* ------------------------------------------------------------- C10
\* C10 as stated: the position of a SchemaDefinition is the stream position
\* that follows its `schema` keyword.
C10_PositionAfterKeyword ==
    \A i \in 1..Len(Defs) :
        IsSchema(Defs[i]) =>
            /\ Column(Defs[i]) >= 2
            /\ input[Column(Defs[i]) - 1] = Ident("schema")

\* C10 amended: the position of a SchemaDefinition is the position captured
\* immediately before its `schema` keyword is consumed, that is the position
\* at which the keyword starts: the first token of the text for the first
\* definition, the token after the end of the definition before it otherwise.
C10_PositionOfKeyword ==
    \A i \in 1..Len(Defs) :
        IsSchema(Defs[i]) =>
            /\ Column(Defs[i]) \in 1..Len(input)
            /\ Defs[i].node.position.line = 1
            /\ input[Column(Defs[i])] = Ident("schema")
            /\ Column(Defs[i]) =
                   (IF i = 1 THEN 1
                    ELSE StartOf(Defs[i - 1]) + TokenLen(Defs[i - 1]))

C10_Witness ==
    /\ result.tag = "Ok"
    /\ Len(Defs) = 2
    /\ IsSchema(Defs[2])
    /\ Defs[2].node.position = Pos(3)
    /\ Defs[2].node.query = Some("B")

====
